---- MODULE Spec2Model ----
(***************************************************************************)
(* A model of the candidate curation pipeline of ai-report:                *)
(*   utils/history_manager.py  the permanent History Store                 *)
(*   cleaner.py                the session deduplicator                    *)
(*   llm_client.py             the selection oracle adapter                *)
(*   curator.py, main.py       the curator and the daily job               *)
(* Text is modelled as sequences of one-character strings, so that the     *)
(* normalisations (lower, strip, split, rstrip) are computed, not assumed. *)
(***************************************************************************)
EXTENDS Naturals, Sequences, FiniteSets, TLC

VARIABLES
    \* utils/history_manager.py : HistoryManager
    _history,        \* self._history, the in-memory ledger (a list of entries)
    _name_set,       \* self._name_set
    _url_set,        \* self._url_set
    history_file,    \* the file data/history.json
    last_call,       \* the last HistoryManager call and what it returned
    \* cleaner.py : deduplicate, and curator.py : Curator.curate._dedupe
    dd_pc,           \* how many times the deduplicator has been applied
    dd_fn,           \* which of the two deduplicators is applied
    dd_recent,       \* the recent_seen set _dedupe closes over
    dd_items,        \* the list handed to the deduplicator
    dd_once,         \* its output
    dd_twice,        \* the output of applying it to dd_once
    \* main.py : run_daily_job, and curator.py : Curator.curate
    pc,                   \* where the daily job stands
    runs,                 \* the daily jobs started so far
    weekly,               \* weekly = self.get_weekly_gems()
    source_pools,         \* source_pools, the filtered candidates by source
    balanced_candidates,  \* balanced_candidates
    candidates_for_llm,   \* candidates_for_llm
    llm_picks,            \* llm_picks
    selections,           \* selections, the shortlist
    store,                \* the file recommendations.json (self.store_path)
    recommended,          \* the products of the shortlists of the earlier jobs
    undisturbed,          \* no file access has failed and the oracle has
                          \* picked among the candidates it was given
    \* llm_client.py : one call of LLMClient.select_best or select_top_n
    llm_pc,          \* "idle", "requesting" (inside _request) or "done"
    llm_op,          \* the method called
    attempt,         \* attempt of select_best / select_top_n
    req_attempt,     \* attempt of _request
    last_err,        \* last_err of _request
    best_result,     \* best_result
    llm_ret,         \* how the call ended, and with what
    posts,           \* the calls of requests.post made for this call
    unparsed,        \* every content received so far has been unparseable
    null_seen,       \* an array received in this call held a named item
                     \* whose summary is the rejection sentinel
    valid_seen,      \* the valid_items of the attempts of this call, in order
    \* curator.py : the calls curate() makes outside the process
    outcomes,        \* how each of them has ended in this curate()
    \* main.py : the configuration and the output of run_daily_job
    api_key,         \* cfg.get("llm_api_key", "") as load_config gives it
    report           \* the report file: "none" or "written"

histVars == <<_history, _name_set, _url_set, history_file, last_call>>

ddVars == <<dd_pc, dd_fn, dd_recent, dd_items, dd_once, dd_twice>>

jobVars ==
    <<pc, runs, weekly, source_pools, balanced_candidates, candidates_for_llm,
      llm_picks, selections, store, recommended, undisturbed>>

llmVars ==
    <<llm_pc, llm_op, attempt, req_attempt, last_err, best_result, llm_ret, posts,
      unparsed, null_seen, valid_seen>>

callVars == <<outcomes>>

cfgVars == <<api_key, report>>

vars == <<histVars, ddVars, jobVars, llmVars, callVars, cfgVars>>

----------------------------------------------------------------------------
(* Text: Python's str.lower, str.strip, str.split("?")[0], str.rstrip("/") *)

\* str.lower() on one character
lower_char(c) ==
    CASE c = "A" -> "a"
      [] c = "B" -> "b"
      [] c = "G" -> "g"
      [] c = "U" -> "u"
      [] OTHER -> c

\* str.upper() on one character
upper_char(c) ==
    CASE c = "n" -> "N"
      [] c = "u" -> "U"
      [] c = "l" -> "L"
      [] c = "a" -> "A"
      [] c = "b" -> "B"
      [] c = "g" -> "G"
      [] OTHER -> c

\* str.upper()
upper(s) == [i \in 1..Len(s) |-> upper_char(s[i])]

\* str.lower()
lower(s) == [i \in 1..Len(s) |-> lower_char(s[i])]

RECURSIVE lstrip(_, _)
\* str.lstrip(ch)
lstrip(s, ch) ==
    IF s # <<>> /\ Head(s) = ch THEN lstrip(Tail(s), ch) ELSE s

RECURSIVE rstrip(_, _)
\* str.rstrip(ch)
rstrip(s, ch) ==
    IF s # <<>> /\ s[Len(s)] = ch THEN rstrip(SubSeq(s, 1, Len(s) - 1), ch) ELSE s

\* str.strip(): whitespace removed at both ends
strip(s) == rstrip(lstrip(s, " "), " ")

RECURSIVE split_head(_, _)
\* str.split(ch)[0]: the text before the first ch
split_head(s, ch) ==
    IF s = <<>> \/ Head(s) = ch THEN <<>> ELSE <<Head(s)>> \o split_head(Tail(s), ch)

----------------------------------------------------------------------------
(* utils/history_manager.py                                                *)

\* HistoryManager._normalize
_normalize(name) == strip(lower(name))

\* HistoryManager._normalize_url
_normalize_url(url) == rstrip(split_head(strip(lower(url)), "?"), "/")

\* HistoryManager.is_duplicate, over the two lookup sets
is_duplicate_prefix(names, urls, name, url) ==
    LET normalized_name == _normalize(name)
        normalized_url == IF url # <<>> THEN _normalize_url(url) ELSE <<>>
    IN  \/ normalized_name # <<>> /\ normalized_name \in names
        \/ /\ normalized_url # <<>>
           /\ \E u \in urls : Len(u) <= Len(normalized_url)
                              /\ SubSeq(normalized_url, 1, Len(u)) = u

is_duplicate(names, urls, name, url) ==
    LET normalized_name == _normalize(name)
        normalized_url == IF url # <<>> THEN _normalize_url(url) ELSE <<>>
    IN  \/ normalized_name # <<>> /\ normalized_name \in names
        \/ normalized_url # <<>> /\ normalized_url \in urls

\* The manager's in-memory state as one value
Mem(h, ns, us) == [history |-> h, names |-> ns, urls |-> us]

\* HistoryManager.add without the update of _name_set
add_forgets_name(m, name, url, source) ==
    IF is_duplicate(m.names, m.urls, name, url)
    THEN m
    ELSE Mem(Append(m.history, [name |-> name, url |-> url, source |-> source]),
             m.names,
             IF _normalize_url(url) # <<>> THEN m.urls \cup {_normalize_url(url)}
                                          ELSE m.urls)

\* HistoryManager.add without the test of is_duplicate
add_unconditionally(m, name, url, source) ==
    Mem(Append(m.history, [name |-> name, url |-> url, source |-> source]),
        IF _normalize(name) # <<>> THEN m.names \cup {_normalize(name)}
                                   ELSE m.names,
        IF _normalize_url(url) # <<>> THEN m.urls \cup {_normalize_url(url)}
                                     ELSE m.urls)

\* HistoryManager.add
add(m, name, url, source) ==
    IF is_duplicate(m.names, m.urls, name, url)
    THEN m
    ELSE Mem(Append(m.history, [name |-> name, url |-> url, source |-> source]),
             IF _normalize(name) # <<>> THEN m.names \cup {_normalize(name)}
                                        ELSE m.names,
             IF _normalize_url(url) # <<>> THEN m.urls \cup {_normalize_url(url)}
                                          ELSE m.urls)

RECURSIVE add_all(_, _)
\* the loop of HistoryManager.save_recommendations
add_all(m, recommendations) ==
    IF recommendations = <<>> THEN m
    ELSE add_all(add(m, Head(recommendations).name, Head(recommendations).url,
                     Head(recommendations).source),
                 Tail(recommendations))

\* the lookup sets HistoryManager._load builds from a loaded ledger
loaded_names(h) ==
    {_normalize(h[i].name) : i \in 1..Len(h)} \ {<<>>}

loaded_urls(h) ==
    {_normalize_url(h[i].url) : i \in 1..Len(h)} \ {<<>>}

\* the file data/history.json: absent, unreadable, or a JSON array
NoFile == [exists |-> FALSE, readable |-> FALSE, data |-> <<>>]
BadFile == [exists |-> TRUE, readable |-> FALSE, data |-> <<>>]
GoodFile(h) == [exists |-> TRUE, readable |-> TRUE, data |-> h]

\* HistoryManager._load: what the ledger is after construction
_load(f, io_error) ==
    IF f.exists /\ f.readable /\ ~io_error THEN f.data ELSE <<>>

\* the write of HistoryManager.save: done, refused at open, or cut short
written(f, h, outcome) ==
    CASE outcome = "ok" -> GoodFile(h)
      [] outcome = "open_fails" -> f
      [] OTHER -> BadFile

----------------------------------------------------------------------------
(* cleaner.py : deduplicate, and curator.py : Curator.curate._dedupe        *)

\* df["key"]: name and url, each lowercased and trimmed, joined by "|"
dedup_key(item) == strip(lower(item.name)) \o <<"|">> \o strip(lower(item.url))

RECURSIVE drop_duplicates(_, _)
\* DataFrame.drop_duplicates(subset=["key"]): the first row of each key is kept
drop_duplicates(items, seen) ==
    IF items = <<>> THEN <<>>
    ELSE IF dedup_key(Head(items)) \in seen
         THEN drop_duplicates(Tail(items), seen)
         ELSE <<Head(items)>>
                  \o drop_duplicates(Tail(items), seen \cup {dedup_key(Head(items))})

RECURSIVE drop_while_iterating(_, _)
\* a deduplicator that removes a duplicate from the list it is iterating over,
\* so that the element after each removed one is never examined
drop_while_iterating(items, seen) ==
    IF items = <<>> THEN <<>>
    ELSE IF dedup_key(Head(items)) \in seen
         THEN IF Tail(items) = <<>> THEN <<>>
              ELSE <<Head(Tail(items))>>
                       \o drop_while_iterating(Tail(Tail(items)), seen)
         ELSE <<Head(items)>>
                  \o drop_while_iterating(Tail(items),
                                          seen \cup {dedup_key(Head(items))})

deduplicate_while_iterating(items) == drop_while_iterating(items, {})

\* cleaner.deduplicate
deduplicate(items) == drop_duplicates(items, {})

\* (item.get("url") or item.get("name") or "").strip().lower()
url_or_name_key(item) ==
    strip(lower(IF item.url # <<>> THEN item.url ELSE item.name))

RECURSIVE _dedupe_from(_, _, _, _)
\* the loop of Curator.curate._dedupe
_dedupe_from(items, seen, recent_seen, apply_recent) ==
    IF items = <<>> THEN <<>>
    ELSE LET key == url_or_name_key(Head(items))
         IN  IF key = <<>> \/ key \in seen \/ (apply_recent /\ key \in recent_seen)
             THEN _dedupe_from(Tail(items), seen, recent_seen, apply_recent)
             ELSE <<Head(items)>>
                      \o _dedupe_from(Tail(items), seen \cup {key}, recent_seen,
                                      apply_recent)

\* Curator.curate._dedupe
_dedupe(items, recent_seen, apply_recent) ==
    _dedupe_from(items, {}, recent_seen, apply_recent)

MaxItems == 3

Record(name, url) == [name |-> name, url |-> url, source |-> "Product Hunt"]

\* the records the deduplicators are given
DedupRecords ==
    { Record(<<"G">>, <<"u">>),
      Record(<<"g">>, <<"u", "/", "?", "x">>),
      Record(<<"g", " ">>, <<" ", "U">>),
      Record(<<"b">>, <<>>),
      Record(<<>>, <<>>) }

RECURSIVE ListsUpTo(_, _)
\* the lists of at most n elements of S
ListsUpTo(S, n) ==
    IF n = 0 THEN { <<>> }
    ELSE ListsUpTo(S, n - 1)
             \cup { Append(l, x) : l \in { k \in ListsUpTo(S, n - 1) : Len(k) = n - 1 },
                                   x \in S }

\* the deduplicator under test applied to a list
Dedup(fn, recent, items) ==
    IF fn = "deduplicate" THEN deduplicate(items) ELSE _dedupe(items, recent, TRUE)

DedupIdle ==
    /\ dd_pc = 0
    /\ dd_fn = "deduplicate"
    /\ dd_recent = {}
    /\ dd_items = <<>>
    /\ dd_once = <<>>
    /\ dd_twice = <<>>

InitDedup ==
    /\ dd_pc = 0
    /\ dd_fn \in {"deduplicate", "_dedupe"}
    /\ dd_recent \in { {}, {<<"u">>} }
    /\ dd_fn = "deduplicate" => dd_recent = {}
    /\ dd_items \in ListsUpTo(DedupRecords, MaxItems)
    /\ dd_once = <<>>
    /\ dd_twice = <<>>

\* the deduplicator is applied to the input list
DedupFirst ==
    /\ dd_pc = 0
    /\ dd_pc' = 1
    /\ dd_once' = Dedup(dd_fn, dd_recent, dd_items)
    /\ UNCHANGED <<dd_fn, dd_recent, dd_items, dd_twice>>

\* the deduplicator is applied to its own output
DedupSecond ==
    /\ dd_pc = 1
    /\ dd_pc' = 2
    /\ dd_twice' = Dedup(dd_fn, dd_recent, dd_once)
    /\ UNCHANGED <<dd_fn, dd_recent, dd_items, dd_once>>

NextDedup ==
    \/ DedupFirst /\ UNCHANGED <<histVars, jobVars, llmVars, callVars, cfgVars>>
    \/ DedupSecond /\ UNCHANGED <<histVars, jobVars, llmVars, callVars, cfgVars>>

----------------------------------------------------------------------------
(* curator.py : the candidate pipeline of Curator.curate                   *)
(* A text (tagline, description, search summary) is the set of the words   *)
(* it is made of, each a sequence of characters; the empty text is {}. A   *)
(* keyword without a space lies in a text exactly when it lies in a word.  *)

\* kw in word
occurs(kw, word) ==
    \E i \in 1..Len(word) :
        i + Len(kw) - 1 <= Len(word) /\ SubSeq(word, i, i + Len(kw) - 1) = kw

\* any(kw in haystack.lower() for kw in kws)
found(kws, haystack) == \E kw \in kws : \E w \in haystack : occurs(kw, lower(w))

\* the words the feeds, the search and the lists below are written with
sdk == <<"s", "d", "k">>
aws == <<"a", "w", "s">>
icp == <<"i", "c", "p">>
beijing == <<"b", "e", "i", "j", "i", "n", "g">>
epicpath == <<"e", "p", "i", "c", "p", "a", "t", "h">>
notes == <<"n", "o", "t", "e", "s">>

\* self.block_keywords, self.vendor_blocklist and cn_evidence, one or two
\* entries of each
block_keywords == {sdk}
vendor_blocklist == {aws}
cn_evidence == {icp, beijing}

\* Curator._is_giant: a blocklisted term occurs in the name and description
\* (no word above is one of self.efficiency_stars)
_is_giant(name, text) == found(vendor_blocklist, {name} \cup text)

\* _is_generic_name that takes no name of no words for a generic one
_is_generic_name_of_words(name) == FALSE

\* Curator._is_generic_name: a name of no words is made of generic words only
_is_generic_name(name) == strip(lower(name)) = <<>>

\* Curator.get_today_news: the records of Part 1 (Futurepedia is not fetched)
today_ok(item) ==
    /\ item.source # "Futurepedia"
    /\ item.published_at = "today"
    /\ item.url # <<>>
    /\ ~_is_giant(item.name, item.tagline)
    /\ ~found(block_keywords \cup vendor_blocklist,
              {item.name, item.url} \cup item.tagline)

get_today_news(feed) == deduplicate(SelectSeq(feed, today_ok))

\* Curator.get_weekly_gems: the loop over the fetched records
weekly_ok(item) ==
    /\ item.source = "Toolify" \/ item.published_at # "old"
    /\ ~_is_giant(item.name, item.tagline)
    /\ item.source = "GitHub" => item.popular

\* Curator.get_weekly_gems
get_weekly_gems(feed) ==
    LET candidates == deduplicate(SelectSeq(feed, weekly_ok))
        today == get_today_news(feed)
        part1_keys == { url_or_name_key(today[i]) : i \in 1..Len(today) }
        fresh(c) == url_or_name_key(c) \notin part1_keys
    IN  SelectSeq(candidates, fresh)

\* Curator._to_candidate_dict
_to_candidate_dict(item) ==
    [name |-> item.name, url |-> item.url, source |-> item.source,
     tagline |-> item.tagline,
     description |-> [base |-> item.tagline, tavily |-> {}]]

\* the words of f"{tagline} {description}"
candidate_text(c) == c.tagline \cup c.description.base \cup c.description.tavily

\* the test of Curator._prefilter_value without the history lookup
value_ok_without_history(names, urls, c) ==
    /\ ~found(block_keywords, {c.name} \cup candidate_text(c))
    /\ ~_is_giant(c.name, candidate_text(c))
    /\ ~_is_generic_name(c.name)

\* the test of Curator._prefilter_value on one candidate (no word above is a
\* developer-tool term, and no record scores -50 or less)
value_ok(names, urls, c) ==
    /\ ~is_duplicate(names, urls, c.name, c.url)
    /\ ~found(block_keywords, {c.name} \cup candidate_text(c))
    /\ ~_is_giant(c.name, candidate_text(c))
    /\ ~_is_generic_name(c.name)

\* Curator._prefilter_value
_prefilter_value(names, urls, candidates) ==
    LET keep(c) == value_ok(names, urls, c)
    IN  SelectSeq(candidates, keep)

\* the keys of source_pools
PoolNames ==
    {"Product Hunt", "Toolify", "GitHub", "Hacker News", "TAAFT", "Futurepedia",
     "Other"}

\* Curator.curate: the balanced pool is grouped by source
group_by_source(remaining_pool) ==
    [s \in PoolNames |->
        LET here(c) == IF c.source \in PoolNames THEN c.source = s ELSE s = "Other"
        IN  SelectSeq(remaining_pool, here)]

\* x in list
InList(x, list) == \E i \in 1..Len(list) : list[i] = x

\* one forced slot: the first candidate of a pool, if it has one
first_of(pool) == IF pool # <<>> THEN <<Head(pool)>> ELSE <<>>

BatchCap == 6
PoolCap == 8
MinItems == 3
MaxShortlist == 4

RECURSIVE round_robin_repeating(_, _, _)
\* Slot 6+ without the test "item not in balanced_candidates"
round_robin_repeating(source_order, pools, balanced) ==
    IF source_order = <<>> THEN balanced
    ELSE LET next == balanced \o first_of(pools[Head(source_order)])
         IN  IF Len(next) >= PoolCap THEN next
             ELSE round_robin_repeating(Tail(source_order), pools, next)

RECURSIVE round_robin(_, _, _)
\* Curator.curate, Slot 6+: one more candidate per source of source_order
round_robin(source_order, pools, balanced) ==
    IF source_order = <<>> THEN balanced
    ELSE LET pool == pools[Head(source_order)]
             new(c) == ~InList(c, balanced)
             rest == SelectSeq(pool, new)
             next == balanced \o first_of(rest)
         IN  IF Len(next) >= PoolCap THEN next
             ELSE round_robin(Tail(source_order), pools, next)

\* the five forced slots without the Hacker News slot
forced_slots_without_hn(pools) ==
    first_of(pools["Product Hunt"]) \o first_of(pools["Toolify"])
        \o first_of(pools["TAAFT"] \o pools["Futurepedia"])
        \o first_of(pools["GitHub"])

\* Curator.curate, Slots 1-5
forced_slots(pools) ==
    first_of(pools["Product Hunt"]) \o first_of(pools["Toolify"])
        \o first_of(pools["TAAFT"] \o pools["Futurepedia"])
        \o first_of(pools["Hacker News"]) \o first_of(pools["GitHub"])

\* Curator.curate: balanced_candidates
balance(pools) ==
    round_robin(<<"TAAFT", "Product Hunt", "Toolify", "Hacker News">>, pools,
                forced_slots(pools))

\* balanced_candidates[:6]
first_n(list, n) == SubSeq(list, 1, IF Len(list) < n THEN Len(list) ELSE n)

\* Curator.curate: one candidate of candidates_for_llm after enrich_with_search
enriched(c, search_summary) ==
    IF c.name # <<>> /\ search_summary # {}
    THEN [c EXCEPT !.description.tavily = search_summary]
    ELSE c

\* what the search finds: nothing, or a text that names a city of cn_evidence;
\* "raises" is TavilyClient.search and the request of the page both raising
SearchWorlds == {"nothing", "evidence", "raises"}

\* Curator.enrich_with_search
enrich_with_search(world, name) ==
    IF world = "evidence" THEN {notes, beijing} ELSE {}

\* Curator.curate: the first 6 candidates are enriched in place
enrich_all(balanced, world) ==
    [i \in 1..Len(balanced) |->
        IF i <= BatchCap
        THEN enriched(balanced[i], enrich_with_search(world, balanced[i].name))
        ELSE balanced[i]]

\* Curator.curate: cn_evidence is looked for in every text of the candidate
has_cn_evidence(balanced, pick) ==
    LET same(c) == lower(c.name) = lower(pick.name)
        named == SelectSeq(balanced, same)
    IN  named # <<>> /\ found(cn_evidence, candidate_text(Head(named)))

\* Curator.curate: the origin of a pick of the oracle
origin_of(balanced, pick) ==
    IF pick.origin = "CN" /\ ~has_cn_evidence(balanced, pick) THEN "Global"
    ELSE pick.origin

\* Curator.curate: the selection made of a pick of the oracle
selection_of(balanced, pick) ==
    [name |-> pick.name, url |-> pick.url,
     one_sentence_intro_cn |-> pick.one_sentence_intro_cn,
     source |-> pick.source, origin |-> origin_of(balanced, pick)]

\* what LLMClient.one_line_summary does when _fallback_reason calls it: it
\* returns a Chinese line, or its own "(to translate)" line after an answer
\* without Chinese or a failed request; "raises" is a call that raises all
\* the same
OneLineWorlds == {"translated", "no_chinese", "raises"}

\* the summaries _fallback_reason gives to a candidate without Chinese text
FallbackSummaries == {"translated", "template"}

\* Curator._fallback_reason, the text being item.tagline or item.description:
\* the oracle is asked when there is a text, and the line of the last resort
\* is made of the name alone
_fallback_reason(one_line, item) ==
    LET source_text == IF item.tagline # {} THEN item.tagline
                       ELSE item.description.tavily
    IN  IF source_text # {} /\ one_line = "translated" THEN "translated"
        ELSE "template"

\* Curator.curate: the selection made of a candidate of the balanced pool
fallback_of(one_line, item) ==
    [name |-> item.name, url |-> item.url,
     one_sentence_intro_cn |-> _fallback_reason(one_line, item),
     source |-> item.source, origin |-> "Global"]

RECURSIVE backfill_selected_again(_, _, _)
\* the backfill that does not skip the candidates already selected
backfill_selected_again(chosen, balanced, one_line) ==
    IF balanced = <<>> \/ Len(chosen) >= MinItems THEN chosen
    ELSE backfill_selected_again(Append(chosen, fallback_of(one_line, Head(balanced))),
                                 Tail(balanced), one_line)

RECURSIVE backfill(_, _, _)
\* Curator.curate, Fallback: the balanced pool fills the shortlist up to 3
backfill(chosen, balanced, one_line) ==
    IF balanced = <<>> \/ Len(chosen) >= MinItems THEN chosen
    ELSE IF \E i \in 1..Len(chosen) : chosen[i].name = Head(balanced).name
         THEN backfill(chosen, Tail(balanced), one_line)
         ELSE backfill(Append(chosen, fallback_of(one_line, Head(balanced))),
                       Tail(balanced), one_line)

\* the shortlist left as long as it is
untruncated(chosen) == chosen

\* Curator.curate: selections = selections[:4]
truncated(chosen) == first_n(chosen, MaxShortlist)

\* the shortlist with the candidates of the backfill before the picks
assemble_backfill_first(picks, balanced, one_line) ==
    LET picked == [i \in 1..Len(picks) |-> selection_of(balanced, picks[i])]
        filled == backfill(picked, balanced, one_line)
    IN  truncated(SubSeq(filled, Len(picked) + 1, Len(filled)) \o picked)

\* Curator.curate: the shortlist made of the picks and the balanced pool
assemble(picks, balanced, one_line) ==
    LET picked == [i \in 1..Len(picks) |-> selection_of(balanced, picks[i])]
    IN  truncated(backfill(picked, balanced, one_line))

\* Curator._append_history: the entries appended to the recommendation file
store_entries(chosen, now) ==
    LET keyed(x) == strip(IF x.url # <<>> THEN x.url ELSE x.name) # <<>>
        kept == SelectSeq(chosen, keyed)
    IN  [i \in 1..Len(kept) |-> [name |-> kept[i].name, url |-> kept[i].url, ts |-> now]]

\* Curator._load_history: the entries of the store file, none when the file
\* is missing or does not parse
_load_history(f) == IF f.exists /\ f.readable THEN f.data ELSE <<>>

\* Curator._recent_seen(days) in the job of day now, the jobs being one day
\* apart: the keys of the entries written from day now - days on
_recent_seen(f, now, days) ==
    LET history == _load_history(f)
    IN  { url_or_name_key(history[i]) :
            i \in { k \in 1..Len(history) : history[k].ts >= now - days } } \ { <<>> }

----------------------------------------------------------------------------
(* The History Store driven call by call                                   *)

MaxLedger == 2

Names == { <<>>, <<"a">>, <<" ", "A">>, <<"b">> }
Urls == { <<>>, <<"u">>, <<"U", "/", "?", "x">>, <<"u", "/", "p">> }

Entry(name, url) == [name |-> name, url |-> url, source |-> "Product Hunt"]

\* the products handed to add, is_duplicate and save_recommendations
Products ==
    { Entry(<<"a">>, <<"u">>),
      Entry(<<" ", "A">>, <<"u", "/", "p">>),
      Entry(<<"b">>, <<"U", "/", "?", "x">>),
      Entry(<<>>, <<>>),
      Entry(<<"b">>, <<>>),
      Entry(<<>>, <<"u", "/", "p">>) }

\* the shortlists handed to save_recommendations
RecItems ==
    { Entry(<<"a">>, <<"u">>),
      Entry(<<"b">>, <<"U", "/", "?", "x">>) }

RecLists == { <<>> } \cup { <<r>> : r \in RecItems }
               \cup { <<r, q>> : r \in RecItems, q \in RecItems }

NoCall == [op |-> "none", args |-> {}, result |-> FALSE]

\* the (name, url) pairs of a list of products
Pairs(list) == { <<list[i].name, list[i].url>> : i \in 1..Len(list) }

\* HistoryManager.__init__: a process start
HNew ==
    /\ \E io_error \in BOOLEAN :
         LET h == _load(history_file, io_error)
         IN  /\ _history' = h
             /\ _name_set' = loaded_names(h)
             /\ _url_set' = loaded_urls(h)
    /\ last_call' = [NoCall EXCEPT !.op = "new"]
    /\ UNCHANGED history_file

\* HistoryManager.is_duplicate(name, url)
HIsDuplicate ==
    /\ \E p \in Products :
         last_call' = [op |-> "is_duplicate", args |-> {<<p.name, p.url>>},
                       result |-> is_duplicate(_name_set, _url_set, p.name, p.url)]
    /\ UNCHANGED <<_history, _name_set, _url_set, history_file>>

\* HistoryManager.add(name, url, source)
HAdd ==
    /\ Len(_history) < MaxLedger
    /\ \E p \in Products :
         LET m == add(Mem(_history, _name_set, _url_set), p.name, p.url, p.source)
         IN  /\ _history' = m.history
             /\ _name_set' = m.names
             /\ _url_set' = m.urls
             /\ last_call' = [op |-> "add", args |-> {<<p.name, p.url>>},
                              result |-> FALSE]
    /\ UNCHANGED history_file

\* HistoryManager.save()
HSave ==
    /\ \E outcome \in {"ok", "open_fails", "cut_short"} :
         history_file' = written(history_file, _history, outcome)
    /\ last_call' = [NoCall EXCEPT !.op = "save"]
    /\ UNCHANGED <<_history, _name_set, _url_set>>

\* HistoryManager.save_recommendations(recommendations)
HSaveRecommendations ==
    /\ \E recommendations \in RecLists, outcome \in {"ok", "open_fails", "cut_short"} :
         LET m == add_all(Mem(_history, _name_set, _url_set), recommendations)
         IN  /\ Len(m.history) <= MaxLedger
             /\ _history' = m.history
             /\ _name_set' = m.names
             /\ _url_set' = m.urls
             /\ history_file' = written(history_file, m.history, outcome)
             /\ last_call' = [op |-> "save_recommendations",
                              args |-> Pairs(recommendations), result |-> FALSE]

\* HistoryManager.clear()
HClear ==
    /\ _history' = <<>>
    /\ _name_set' = {}
    /\ _url_set' = {}
    /\ \E outcome \in {"ok", "open_fails", "cut_short"} :
         history_file' = written(history_file, <<>>, outcome)
    /\ last_call' = [NoCall EXCEPT !.op = "clear"]

InitHistory ==
    /\ history_file = NoFile
    /\ _history = <<>>
    /\ _name_set = {}
    /\ _url_set = {}
    /\ last_call = [NoCall EXCEPT !.op = "new"]

NextHistory ==
    \/ HNew /\ UNCHANGED <<ddVars, jobVars, llmVars, callVars, cfgVars>>
    \/ HIsDuplicate /\ UNCHANGED <<ddVars, jobVars, llmVars, callVars, cfgVars>>
    \/ HAdd /\ UNCHANGED <<ddVars, jobVars, llmVars, callVars, cfgVars>>
    \/ HSave /\ UNCHANGED <<ddVars, jobVars, llmVars, callVars, cfgVars>>
    \/ HSaveRecommendations /\ UNCHANGED <<ddVars, jobVars, llmVars, callVars, cfgVars>>
    \/ HClear /\ UNCHANGED <<ddVars, jobVars, llmVars, callVars, cfgVars>>

----------------------------------------------------------------------------
(* main.py : run_daily_job, one daily job after the other                  *)

MaxRuns == 2
MaxFeed == 2

Raw(name, url, source, tagline, published_at) ==
    [name |-> name, url |-> url, source |-> source, tagline |-> tagline,
     published_at |-> published_at, popular |-> TRUE]

\* the records the feeds can return, in the order the sources are read
Universe ==
    << Raw(<<"G">>, <<"u">>, "Product Hunt", {}, "week"),
       Raw(<<"g">>, <<"u", "/", "?", "x">>, "Product Hunt", {}, "week"),
       Raw(<<"b">>, <<" ", "U">>, "Toolify", {}, "none"),
       Raw(<<"b">>, <<"v">>, "TAAFT", {beijing}, "none") >>

RECURSIVE SubLists(_)
\* the lists made of some of the elements of a list, in its order
SubLists(list) ==
    IF list = <<>> THEN { <<>> }
    ELSE LET rest == SubLists(Tail(list))
         IN  rest \cup { <<Head(list)>> \o l : l \in rest }

Feeds == SubLists(Universe)

\* what the oracle can name in an item of its answer
Pick(r, origin) ==
    [name |-> r.name, url |-> r.url, one_sentence_intro_cn |-> "clean",
     source |-> r.source, origin |-> origin]

PickOptions ==
    { Pick(Universe[1], "Global"), Pick(Universe[Len(Universe)], "Global"),
      Pick(Universe[Len(Universe)], "CN") }

\* a pick names a candidate of the batch
in_batch(pick, batch) ==
    \E i \in 1..Len(batch) : batch[i].name = pick.name /\ batch[i].url = pick.url

NoStore == [exists |-> FALSE, readable |-> FALSE, data |-> <<>>]

JobIdle ==
    /\ pc = "idle"
    /\ runs = 0
    /\ weekly = <<>>
    /\ source_pools = [s \in PoolNames |-> <<>>]
    /\ balanced_candidates = <<>>
    /\ candidates_for_llm = <<>>
    /\ llm_picks = <<>>
    /\ selections = <<>>
    /\ store = NoStore
    /\ recommended = {}
    /\ undisturbed = TRUE

\* the keys load_config can give: none, blanks, a key
ApiKeys == { <<>>, <<" ">>, <<"k">> }

\* a key is missing only when it is the empty text
no_key_unstripped(key) == key = <<>>

\* "if not api_key", api_key being the configured key stripped
no_key(key) == strip(key) = <<>>

\* a key is configured and no report has been written yet
Configured == api_key = <<"k">> /\ report = "none"

\* run_daily_job without a key: RuntimeError before anything else is done
RefuseJob ==
    /\ pc \in {"idle", "raised"}
    /\ runs < MaxRuns
    /\ no_key(api_key)
    /\ runs' = runs + 1
    /\ pc' = "raised"
    /\ UNCHANGED <<histVars, weekly, source_pools, balanced_candidates,
                   candidates_for_llm, llm_picks, selections, store, recommended,
                   undisturbed, cfgVars>>

\* the configuration changes between two jobs
SetKey ==
    /\ pc \in {"idle", "raised"}
    /\ \E key \in ApiKeys \ {api_key} : api_key' = key
    /\ UNCHANGED <<histVars, jobVars, report>>

\* run_daily_job up to the filtered pools of curate(), the sources returning feed
StartJobWith(feed) ==
    /\ pc \in {"idle", "raised"}
    /\ runs < MaxRuns
    /\ ~no_key(api_key)
    /\ runs' = runs + 1
    /\ \E io_error \in (IF history_file.exists /\ history_file.readable
                         THEN BOOLEAN ELSE {FALSE}) :
         LET h == _load(history_file, io_error)
             gems == get_weekly_gems(feed)
             pool == [i \in 1..Len(gems) |-> _to_candidate_dict(gems[i])]
         IN  /\ _history' = h
             /\ _name_set' = loaded_names(h)
             /\ _url_set' = loaded_urls(h)
             /\ weekly' = gems
             /\ source_pools' =
                    group_by_source(_prefilter_value(loaded_names(h), loaded_urls(h),
                                                     pool))
             /\ undisturbed' =
                    (undisturbed /\ (history_file.exists =>
                                        history_file.readable /\ ~io_error))
    /\ balanced_candidates' = <<>>
    /\ candidates_for_llm' = <<>>
    /\ llm_picks' = <<>>
    /\ selections' = <<>>
    /\ pc' = "pooled"
    /\ UNCHANGED <<history_file, last_call, store, recommended>>

\* run_daily_job up to the filtered pools of curate()
StartJob == \E feed \in Feeds : StartJobWith(feed)

\* curate(): the forced slots and the round robin
Balance ==
    /\ pc = "pooled"
    /\ balanced_candidates' = balance(source_pools)
    /\ candidates_for_llm' = first_n(balance(source_pools), BatchCap)
    /\ pc' = "balanced"
    /\ UNCHANGED <<histVars, runs, weekly, source_pools, llm_picks, selections,
                   store, recommended, undisturbed>>

\* curate(): the search results are appended to the descriptions of the batch
EnrichIn(world) ==
    /\ pc = "balanced"
    /\ LET searched == enrich_all(balanced_candidates, world)
       IN  /\ balanced_candidates' = searched
           /\ candidates_for_llm' = first_n(searched, BatchCap)
    /\ pc' = "enriched"
    /\ UNCHANGED <<histVars, runs, weekly, source_pools, llm_picks, selections,
                   store, recommended, undisturbed>>

Enrich == \E world \in SearchWorlds : EnrichIn(world)

\* curate(): llm_picks is what select_top_n hands back
SelectAs(picks) ==
    /\ pc = "enriched"
    /\ llm_picks' = picks
    /\ undisturbed' =
           (undisturbed /\ \A i \in 1..Len(picks) :
                               in_batch(picks[i], candidates_for_llm))
    /\ pc' = "picked"
    /\ UNCHANGED <<histVars, runs, weekly, source_pools, balanced_candidates,
                   candidates_for_llm, selections, store, recommended>>

\* curate(): llm_picks = self.llm.select_top_n(candidates_for_llm), or [] when it raises
SelectTopN(answers) ==
    \E picks \in (IF candidates_for_llm = <<>> THEN { <<>> } ELSE answers) :
        SelectAs(picks)

\* what the locals of run_daily_job and curate() are once the job is over
JobLocalsGone ==
    /\ weekly' = <<>>
    /\ source_pools' = [s \in PoolNames |-> <<>>]
    /\ balanced_candidates' = <<>>
    /\ candidates_for_llm' = <<>>
    /\ llm_picks' = <<>>
    /\ selections' = <<>>

\* curate(): the shortlist is assembled, recorded in the store file and returned;
\* a failed write of the store file is not caught and ends the job
AssembleAs(one_line, outcome) ==
    /\ pc = "picked"
    /\ LET shortlist == assemble(llm_picks, balanced_candidates, one_line)
           old == IF store.exists /\ store.readable THEN store.data ELSE <<>>
       IN  /\ store' = written(store, old \o store_entries(shortlist, runs), outcome)
           /\ undisturbed' = (undisturbed /\ outcome = "ok")
           /\ IF outcome = "ok"
              THEN /\ selections' = shortlist
                   /\ pc' = "returned"
                   /\ UNCHANGED <<weekly, source_pools, balanced_candidates,
                                  candidates_for_llm, llm_picks>>
              ELSE /\ JobLocalsGone
                   /\ pc' = "raised"
    /\ UNCHANGED <<histVars, runs, recommended>>

WriteOutcomes == {"ok", "open_fails", "cut_short"}

Assemble ==
    \E one_line \in OneLineWorlds, outcome \in WriteOutcomes :
        AssembleAs(one_line, outcome)

\* run_daily_job after curate(): the report is written and the shortlist is
\* saved to the History Store
FinishJob ==
    /\ pc = "returned"
    /\ IF selections # <<>>
       THEN \E outcome \in {"ok", "open_fails", "cut_short"} :
                LET m == add_all(Mem(_history, _name_set, _url_set), selections)
                IN  /\ _history' = m.history
                    /\ _name_set' = m.names
                    /\ _url_set' = m.urls
                    /\ history_file' = written(history_file, m.history, outcome)
                    /\ undisturbed' = (undisturbed /\ outcome = "ok")
       ELSE UNCHANGED <<_history, _name_set, _url_set, history_file, undisturbed>>
    /\ recommended' =
           recommended \cup { [name |-> selections[i].name, url |-> selections[i].url] :
                              i \in 1..Len(selections) }
    /\ report' = "written"
    /\ pc' = "idle"
    /\ JobLocalsGone
    /\ UNCHANGED <<last_call, runs, store, api_key>>

NextJob ==
    \/ StartJob /\ UNCHANGED <<ddVars, llmVars, callVars, cfgVars>>
    \/ Balance /\ UNCHANGED <<ddVars, llmVars, callVars, cfgVars>>
    \/ Enrich /\ UNCHANGED <<ddVars, llmVars, callVars, cfgVars>>
    \/ SelectTopN(ListsUpTo(PickOptions, 1)) /\ UNCHANGED <<ddVars, llmVars, callVars, cfgVars>>
    \/ Assemble /\ UNCHANGED <<ddVars, llmVars, callVars, cfgVars>>
    \/ FinishJob /\ UNCHANGED <<ddVars, llmVars, callVars>>

\* the daily jobs with a configuration that changes; the oracle gives no pick
NextStart ==
    \/ SetKey /\ UNCHANGED <<ddVars, llmVars, callVars>>
    \/ RefuseJob /\ UNCHANGED <<ddVars, llmVars, callVars>>
    \/ StartJob /\ UNCHANGED <<ddVars, llmVars, callVars, cfgVars>>
    \/ Balance /\ UNCHANGED <<ddVars, llmVars, callVars, cfgVars>>
    \/ Enrich /\ UNCHANGED <<ddVars, llmVars, callVars, cfgVars>>
    \/ SelectTopN({ <<>> }) /\ UNCHANGED <<ddVars, llmVars, callVars, cfgVars>>
    \/ Assemble /\ UNCHANGED <<ddVars, llmVars, callVars, cfgVars>>
    \/ FinishJob /\ UNCHANGED <<ddVars, llmVars, callVars>>

\* the records of feeds that leave out the name, the url or both
FilterNames == Names \cup { <<" ">> }

FilterRecords ==
    { Raw(n, u, "Product Hunt", {}, "week") : n \in FilterNames, u \in Urls }

FilterFeeds == ListsUpTo(FilterRecords, MaxFeed)

\* curate() up to the balanced pool, for feeds of such records
NextFilter ==
    \/ (\E feed \in FilterFeeds : StartJobWith(feed))
           /\ UNCHANGED <<ddVars, llmVars, callVars, cfgVars>>
    \/ Balance /\ UNCHANGED <<ddVars, llmVars, callVars, cfgVars>>

----------------------------------------------------------------------------
(* llm_client.py : LLMClient, one call of select_best or select_top_n      *)
(* A summary is the class of its text: "" (empty), "error" (the invalid-   *)
(* data phrase), "null" (the sentinel), "english" (no Chinese character),  *)
(* "low" (Chinese ratio under 0.3), "mid" (0.3 up to 0.4), "noisy" (mostly  *)
(* Chinese, with a metadata word such as "stars" in it), "clean". The      *)
(* summary of a result is the pair of the mark put before it and the text. *)
(* The classes without a Chinese character have a spelling, so that the    *)
(* test for the sentinel is computed: "null" is NULL, "null_padded" is     *)
(* " Null ", "english" is "nulls".                                         *)

max_retries == 3

MaxAnswer == 3

\* LLMClient._is_invalid_output
_is_invalid_output(text) == text \in {"", "error"}

\* the characters of a summary without a Chinese character
spelling(text) ==
    CASE text = "null" -> <<"N", "U", "L", "L">>
      [] text = "null_padded" -> <<" ", "N", "u", "l", "l", " ">>
      [] text = "english" -> <<"n", "u", "l", "l", "s">>
      [] OTHER -> <<>>

\* select_top_n: reason.strip().upper() == "NULL"
is_null(text) == upper(strip(spelling(text))) = <<"N", "U", "L", "L">>

\* LLMClient._contains_chinese
_contains_chinese(text) == text \in {"low", "mid", "noisy", "clean", "paren"}

\* LLMClient._needs_rewrite
_needs_rewrite(text) == ~_contains_chinese(text) \/ text \in {"low", "mid", "noisy"}

\* the first character of a summary: "(" for a summary written with a
\* bracket in front, "x" for any other character, "" for the empty summary
first_char(text) ==
    CASE text = "" -> ""
      [] text = "paren" -> "("
      [] OTHER -> "x"

\* LLMClient._postprocess_intro
_postprocess_intro(text) ==
    CASE text = "" -> [mark |-> "(auto translation failed)", text |-> "none yet"]
      [] ~_contains_chinese(text) ->
            [mark |-> "(auto translation failed)", text |-> text]
      [] text = "low" -> [mark |-> "(translation incomplete)", text |-> text]
      [] OTHER -> [mark |-> "", text |-> text]

\* one JSON object of an answer: has it a name, its summary, its origin
Item(named, intro, origin) ==
    [named |-> named, one_sentence_intro_cn |-> intro, origin |-> origin]

\* the contents _request can return
Content(kind, items) == [kind |-> kind, items |-> items]

\* to select_best: no text, the word "none", text without JSON, a JSON array,
\* or one JSON object
BestContents ==
    { Content(k, <<>>) : k \in {"empty", "none_word", "garbage", "list"} }
        \cup { Content("dict", <<Item(FALSE, "clean", "Global")>>) }
        \cup { Content("dict", <<Item(TRUE, t, "Global")>>) :
                 t \in {"", "error", "english", "low", "mid", "noisy", "clean"} }

\* the objects of an array answered to select_top_n
ItemOptions ==
    { Item(FALSE, "clean", "Global"), Item(TRUE, "null", "Global"),
      Item(TRUE, "null_padded", "Global"),
      Item(TRUE, "english", "CN"), Item(TRUE, "clean", "Mars") }

\* to select_top_n: no text, text without JSON, one JSON object, or an array
TopContents ==
    { Content(k, <<>>) : k \in {"empty", "garbage"} }
        \cup { Content("dict", <<Item(TRUE, "clean", "Global")>>) }
        \cup { Content("list", l) : l \in ListsUpTo(ItemOptions, MaxAnswer) }

\* the content is not JSON of the shape the method asks for
Unparseable(op, content) ==
    IF op = "select_best"
    THEN \/ content.kind \in {"empty", "none_word", "garbage", "list"}
         \/ content.kind = "dict" /\ ~content.items[1].named
    ELSE content.kind \in {"empty", "garbage", "dict"}

\* LLMClient._extract_json raises on a text that holds no JSON
extract_raises(content) == content.kind \in {"empty", "garbage"}

\* parse_llm_response that takes an object without a name for a pick
parse_accepts_nameless(content) ==
    IF content.kind = "dict" THEN content.items ELSE <<>>

\* LLMClient.parse_llm_response, when it does not raise: the pick, or None (<<>>)
parse_llm_response(content) ==
    IF content.kind = "dict" /\ content.items[1].named THEN content.items ELSE <<>>

\* a pick handed back with the summary the oracle wrote, nothing before it
as_it_is(parsed) ==
    << [parsed[1] EXCEPT !.one_sentence_intro_cn =
                             [mark |-> "", text |-> parsed[1].one_sentence_intro_cn]] >>

\* the body of the loop of select_best: is the pick returned at once, and
\* best_result after it
best_step(content, best) ==
    LET parsed == parse_llm_response(content)
        raises == content.kind = "garbage"
        reason == parsed[1].one_sentence_intro_cn
    IN  IF raises \/ parsed = <<>> \/ _is_invalid_output(reason)
        THEN [returns |-> FALSE, value |-> <<>>, best |-> best]
        ELSE IF ~_needs_rewrite(reason)
        THEN [returns |-> TRUE, value |-> as_it_is(parsed), best |-> best]
        ELSE [returns |-> FALSE, value |-> <<>>,
              best |-> IF best = <<>> THEN parsed ELSE best]

\* select_best after the loop: best_result with its summary post-processed
best_final(best) ==
    IF best = <<>> THEN <<>>
    ELSE << [best[1] EXCEPT !.one_sentence_intro_cn =
                                _postprocess_intro(best[1].one_sentence_intro_cn)] >>

\* i.get("one_sentence_intro_cn", "").startswith("("), the summary being the
\* mark, if any, followed by the text; both marks begin with "("
startswith_bracket(intro) ==
    IF intro.mark # "" THEN TRUE ELSE first_char(intro.text) = "("

\* select_top_n that keeps a rejected item, with the mark of a failed translation
valid_items_marks_null(items) ==
    LET kept(i) == i.named
        named == SelectSeq(items, kept)
    IN  [k \in 1..Len(named) |->
            [named |-> TRUE,
             one_sentence_intro_cn |-> _postprocess_intro(named[k].one_sentence_intro_cn),
             origin |-> IF named[k].origin \in {"CN", "Global"}
                        THEN named[k].origin ELSE "Global"]]

\* select_top_n: the valid items of an array
valid_items(items) ==
    LET kept(i) == i.named /\ ~is_null(i.one_sentence_intro_cn)
        named == SelectSeq(items, kept)
    IN  [k \in 1..Len(named) |->
            [named |-> TRUE,
             one_sentence_intro_cn |-> _postprocess_intro(named[k].one_sentence_intro_cn),
             origin |-> IF named[k].origin \in {"CN", "Global"}
                        THEN named[k].origin ELSE "Global"]]

\* the body of the loop of select_top_n
top_step(content, best) ==
    IF extract_raises(content) \/ content.kind # "list"
    THEN [returns |-> FALSE, value |-> <<>>, best |-> best]
    ELSE LET valid == valid_items(content.items)
             good(i) == ~startswith_bracket(i.one_sentence_intro_cn)
         IN  IF Len(SelectSeq(valid, good)) >= MinItems
             THEN [returns |-> TRUE, value |-> valid, best |-> best]
             ELSE [returns |-> FALSE, value |-> <<>>,
                   best |-> IF Len(valid) > Len(best) THEN valid ELSE best]

Pending == [how |-> "pending", value |-> <<>>]

LLMIdle ==
    /\ llm_pc = "idle"
    /\ llm_op = "select_best"
    /\ attempt = 1
    /\ req_attempt = 1
    /\ last_err = "None"
    /\ best_result = <<>>
    /\ llm_ret = Pending
    /\ posts = 0
    /\ unparsed = TRUE
    /\ null_seen = FALSE
    /\ valid_seen = <<>>

\* select_best / select_top_n is called
LLMCall ==
    /\ llm_pc \in {"idle", "done"}
    /\ \E op \in {"select_best", "select_top_n"}, no_candidates \in BOOLEAN :
         /\ llm_op' = op
         /\ llm_pc' = IF no_candidates THEN "done" ELSE "requesting"
         /\ llm_ret' = IF no_candidates THEN [how |-> "returned", value |-> <<>>]
                       ELSE Pending
    /\ attempt' = 1
    /\ req_attempt' = 1
    /\ last_err' = "None"
    /\ best_result' = <<>>
    /\ posts' = 0
    /\ unparsed' = TRUE
    /\ null_seen' = FALSE
    /\ valid_seen' = <<>>

\* _request: its loop is over once max_retries posts have failed
request_never_exhausted(failed) == FALSE

request_exhausted(failed) == failed >= max_retries

\* _request: one post that brings no content; after the wait the next post
\* follows, and after the last one RuntimeError reaches the caller of the method
PostWithoutContent(err) ==
    /\ llm_pc = "requesting"
    /\ posts' = posts + 1
    /\ last_err' = err
    /\ IF request_exhausted(req_attempt)
       THEN /\ llm_pc' = "done"
            /\ llm_ret' = [how |-> "raised", value |-> <<>>]
            /\ UNCHANGED req_attempt
       ELSE /\ req_attempt' = req_attempt + 1
            /\ UNCHANGED <<llm_pc, llm_ret>>
    /\ UNCHANGED <<llm_op, attempt, best_result, unparsed, null_seen, valid_seen>>

\* _request: the post is answered with status 429
PostThrottled == PostWithoutContent(last_err)

\* _request: the post raises, or its answer is no 2xx or holds no content
PostFailed == PostWithoutContent("exc")

\* _request returns content and the loop of the method handles it
Answered(content) ==
    /\ llm_pc = "requesting"
    /\ posts' = posts + 1
    /\   LET step == IF llm_op = "select_best" THEN best_step(content, best_result)
                     ELSE top_step(content, best_result)
             last == attempt >= max_retries
         IN  /\ unparsed' = (unparsed /\ Unparseable(llm_op, content))
             /\ null_seen' =
                    (\/ null_seen
                     \/ /\ llm_op = "select_top_n"
                        /\ content.kind = "list"
                        /\ \E k \in 1..Len(content.items) :
                              /\ content.items[k].named
                              /\ is_null(content.items[k].one_sentence_intro_cn))
             /\ best_result' = step.best
             /\ IF step.returns
                THEN /\ llm_pc' = "done"
                     /\ llm_ret' = [how |-> "returned", value |-> step.value]
                     /\ UNCHANGED <<attempt, req_attempt>>
                ELSE IF last
                THEN /\ llm_pc' = "done"
                     /\ llm_ret' =
                            [how |-> "returned",
                             value |-> IF llm_op = "select_best"
                                       THEN best_final(step.best) ELSE step.best]
                     /\ UNCHANGED <<attempt, req_attempt>>
                ELSE /\ attempt' = attempt + 1
                     /\ req_attempt' = 1
                     /\ UNCHANGED <<llm_pc, llm_ret>>
             /\ last_err' = IF step.returns \/ last THEN last_err ELSE "None"
    /\ UNCHANGED llm_op

\* _request returns a content
PostAnswered ==
    /\ \E content \in (IF llm_op = "select_best" THEN BestContents ELSE TopContents) :
         Answered(content)
    /\ UNCHANGED valid_seen

\* select_top_n: the valid_items of one attempt, none when the content holds
\* no array
validated(content) ==
    IF extract_raises(content) \/ content.kind # "list" THEN <<>>
    ELSE valid_items(content.items)

\* the arrays answered to one call of select_top_n: items with a summary in
\* English (marked), clean ones, and an array of clean summaries that begin
\* with a bracket
TopNItems == { Item(TRUE, "english", "CN"), Item(TRUE, "clean", "Global") }

TopNContents ==
    { Content("garbage", <<>>) }
        \cup { Content("list", l) : l \in ListsUpTo(TopNItems, MaxAnswer) }
        \cup { Content("list", [k \in 1..MinItems |-> Item(TRUE, "paren", "Global")]) }

\* select_top_n is called
TopCall == LLMCall /\ llm_op' = "select_top_n"

\* _request returns a content to select_top_n
TopAnswered ==
    /\ llm_op = "select_top_n"
    /\ \E content \in TopNContents :
         /\ Answered(content)
         /\ valid_seen' = Append(valid_seen, validated(content))

NextTopN ==
    \/ TopCall /\ UNCHANGED <<histVars, ddVars, jobVars, callVars, cfgVars>>
    \/ PostThrottled /\ UNCHANGED <<histVars, ddVars, jobVars, callVars, cfgVars>>
    \/ PostFailed /\ UNCHANGED <<histVars, ddVars, jobVars, callVars, cfgVars>>
    \/ TopAnswered /\ UNCHANGED <<histVars, ddVars, jobVars, callVars, cfgVars>>

NextLLM ==
    \/ LLMCall /\ UNCHANGED <<histVars, ddVars, jobVars, callVars, cfgVars>>
    \/ PostThrottled /\ UNCHANGED <<histVars, ddVars, jobVars, callVars, cfgVars>>
    \/ PostFailed /\ UNCHANGED <<histVars, ddVars, jobVars, callVars, cfgVars>>
    \/ PostAnswered /\ UNCHANGED <<histVars, ddVars, jobVars, callVars, cfgVars>>

----------------------------------------------------------------------------
(* The Source Balancer on its own: curate() from the filtered pools on     *)

MaxPool == 2

\* the k-th record a source returns
SourceRecord(source, k) ==
    LET letter == CASE source = "Product Hunt" -> "p"
                    [] source = "Toolify" -> "t"
                    [] source = "GitHub" -> "h"
                    [] source = "Hacker News" -> "n"
                    [] source = "TAAFT" -> "f"
                    [] source = "Futurepedia" -> "e"
                    [] OTHER -> "o"
        digit == IF k = 1 THEN "1" ELSE IF k = 2 THEN "2" ELSE "3"
    IN  Raw(<<letter, digit>>, <<letter, "/", digit>>, source, {}, "week")

\* the filtered pools when every source returns some new records of its own
PoolsOfSizes(size) ==
    [s \in PoolNames |->
        [k \in 1..size[s] |-> _to_candidate_dict(SourceRecord(s, k))]]

InitBalance ==
    /\ pc = "pooled"
    /\ runs = 1
    /\ weekly = <<>>
    /\ source_pools \in { PoolsOfSizes(size) : size \in [PoolNames -> 0..MaxPool] }
    /\ balanced_candidates = <<>>
    /\ candidates_for_llm = <<>>
    /\ llm_picks = <<>>
    /\ selections = <<>>
    /\ store = NoStore
    /\ recommended = {}
    /\ undisturbed = TRUE

NextBalance == Balance /\ UNCHANGED <<ddVars, llmVars, callVars, cfgVars>>

----------------------------------------------------------------------------
(* The assembly of the shortlist on its own: curate() from the picks on    *)

MaxBalanced == 2
MaxPicks == 2

MaxOracleItems == 5

\* the products of the candidates: two of the same name at different urls,
\* and two of different names at urls that differ by the trailing slash
AssembleProducts ==
    { [name |-> <<"a">>, url |-> <<"a">>], [name |-> <<"b">>, url |-> <<"a", "/">>],
      [name |-> <<"a">>, url |-> <<"c">>] }

\* the texts of a candidate: none, a tagline with a word that holds "icp", or
\* a search summary
AssembleTexts ==
    { [tagline |-> {}, summary |-> {}], [tagline |-> {epicpath}, summary |-> {}],
      [tagline |-> {}, summary |-> {notes, beijing}] }

\* enriched candidates
AssembleCandidates ==
    { enriched(_to_candidate_dict(Raw(p.name, p.url, "Toolify", t.tagline, "week")),
               t.summary) :
        p \in AssembleProducts, t \in AssembleTexts }

\* the balanced pool is made of a deduplicated list: no two of its candidates
\* have the same name and url
AssemblePools ==
    { l \in ListsUpTo(AssembleCandidates, MaxBalanced) :
        \A i, j \in 1..Len(l) : i < j => dedup_key(l[i]) # dedup_key(l[j]) }

\* what the oracle can answer: a candidate's name or another one, either label
AssemblePicks ==
    { [name |-> n, url |-> n, one_sentence_intro_cn |-> "clean",
       source |-> "Toolify", origin |-> o] :
        n \in {<<"a">>, <<"A">>, <<"z">>}, o \in {"CN", "Global"} }

\* the items of a long answer: a clean one that names no candidate, and one
\* that names a candidate and whose summary select_top_n has marked
LongPickOptions ==
    { [name |-> <<"z">>, url |-> <<"z">>, one_sentence_intro_cn |-> "clean",
       source |-> "Toolify", origin |-> "Global"],
      [name |-> <<"a">>, url |-> <<"a">>, one_sentence_intro_cn |-> "marked",
       source |-> "Toolify", origin |-> "Global"] }

\* the answers of 3 items and more, up to one more than the shortlist takes
LongPicks == { l \in ListsUpTo(LongPickOptions, MaxOracleItems) : Len(l) >= MinItems }

InitAssemble ==
    /\ pc = "picked"
    /\ runs = 1
    /\ weekly = <<>>
    /\ source_pools = [s \in PoolNames |-> <<>>]
    /\ balanced_candidates \in AssemblePools
    /\ candidates_for_llm = first_n(balanced_candidates, BatchCap)
    \* select_top_n returns [] when it is given no candidate
    /\ llm_picks \in IF balanced_candidates = <<>> THEN { <<>> }
                     ELSE ListsUpTo(AssemblePicks, MaxPicks) \cup LongPicks
    /\ selections = <<>>
    /\ store = NoStore
    /\ recommended = {}
    /\ undisturbed = TRUE

NextAssemble == Assemble /\ UNCHANGED <<ddVars, llmVars, callVars, cfgVars>>

----------------------------------------------------------------------------
(* curate() from the balanced pool on, with the calls it makes outside the *)
(* process and how each of them ends                                       *)

Calls == {"search", "select_top_n", "one_line_summary", "_save_history"}

NoCalls == outcomes = [c \in Calls |-> "none"]

\* no call is made inside a try block
caught_nowhere(call) == FALSE

\* the calls made inside a try block with except Exception: the search in
\* enrich_with_search and _fallback_search, select_top_n in curate(), and
\* one_line_summary in _fallback_reason
caught(call) == call \in {"search", "select_top_n", "one_line_summary"}

\* candidates as _to_candidate_dict makes them, before any search
DegradePools ==
    { l \in ListsUpTo({ _to_candidate_dict(Raw(p.name, p.url, "Toolify", t, "week")) :
                          p \in AssembleProducts, t \in {{}, {epicpath}} },
                      MaxBalanced) :
        \A i, j \in 1..Len(l) : i < j => dedup_key(l[i]) # dedup_key(l[j]) }

InitDegrade ==
    /\ pc = "balanced"
    /\ runs = 1
    /\ weekly = <<>>
    /\ source_pools = [s \in PoolNames |-> <<>>]
    /\ balanced_candidates \in DegradePools
    /\ candidates_for_llm = first_n(balanced_candidates, BatchCap)
    /\ llm_picks = <<>>
    /\ selections = <<>>
    /\ store = NoStore
    /\ recommended = {}
    /\ undisturbed = TRUE

\* an exception leaves curate()
RaisedOut ==
    /\ JobLocalsGone
    /\ pc' = "raised"
    /\ UNCHANGED <<histVars, runs, store, recommended, undisturbed>>

\* curate(): the loop of enrich_with_search
DegradeEnrich ==
    \E world \in SearchWorlds :
        /\ outcomes' = [outcomes EXCEPT !["search"] = world]
        /\ IF world = "raises" /\ ~caught("search")
           THEN pc = "balanced" /\ RaisedOut
           ELSE EnrichIn(world)

\* curate(): select_top_n returns a list, or raises after its last request
DegradeSelect ==
    \E how \in {"returned", "raised"}, picks \in ListsUpTo(LongPickOptions, 1) :
        /\ how = "raised" => picks = <<>> /\ candidates_for_llm # <<>>
        /\ candidates_for_llm = <<>> => picks = <<>>
        /\ outcomes' = [outcomes EXCEPT !["select_top_n"] = how]
        /\ IF how = "raised" /\ ~caught("select_top_n")
           THEN pc = "enriched" /\ RaisedOut
           ELSE SelectAs(picks)

\* curate(): the picks, the backfill with _fallback_reason, _append_history
DegradeAssemble ==
    \E one_line \in OneLineWorlds, outcome \in WriteOutcomes :
        /\ outcomes' = [outcomes EXCEPT !["one_line_summary"] = one_line,
                                        !["_save_history"] = outcome]
        /\ IF one_line = "raises" /\ ~caught("one_line_summary")
           THEN pc = "picked" /\ RaisedOut
           ELSE AssembleAs(one_line, outcome)

NextDegrade ==
    \/ DegradeEnrich /\ UNCHANGED <<ddVars, llmVars, cfgVars>>
    \/ DegradeSelect /\ UNCHANGED <<ddVars, llmVars, cfgVars>>
    \/ DegradeAssemble /\ UNCHANGED <<ddVars, llmVars, cfgVars>>

----------------------------------------------------------------------------
(* The specifications *)

\* every component but the ones a specification drives starts idle
Init == InitHistory /\ DedupIdle /\ JobIdle /\ LLMIdle /\ NoCalls /\ Configured

HistoryInit == InitHistory /\ DedupIdle /\ JobIdle /\ LLMIdle /\ NoCalls /\ Configured

DedupInit == InitDedup /\ InitHistory /\ JobIdle /\ LLMIdle /\ NoCalls /\ Configured

BalanceInit == InitBalance /\ InitHistory /\ DedupIdle /\ LLMIdle /\ NoCalls /\ Configured

AssembleInit == InitAssemble /\ InitHistory /\ DedupIdle /\ LLMIdle /\ NoCalls /\ Configured

LLMInit == LLMIdle /\ InitHistory /\ DedupIdle /\ JobIdle /\ NoCalls /\ Configured

DegradeInit == InitDegrade /\ InitHistory /\ DedupIdle /\ LLMIdle /\ NoCalls /\ Configured

Spec == Init /\ [][NextJob]_vars

SpecHistory == HistoryInit /\ [][NextHistory]_vars

SpecDedup == DedupInit /\ [][NextDedup]_vars

SpecBalance == BalanceInit /\ [][NextBalance]_vars

SpecAssemble == AssembleInit /\ [][NextAssemble]_vars

SpecLLM == LLMInit /\ [][NextLLM]_vars

SpecDegrade == DegradeInit /\ [][NextDegrade]_vars

StartInit ==
    /\ InitHistory /\ DedupIdle /\ JobIdle /\ LLMIdle /\ NoCalls
    /\ api_key \in ApiKeys
    /\ report = "none"

SpecStart == StartInit /\ [][NextStart]_vars

FilterInit == InitHistory /\ DedupIdle /\ JobIdle /\ LLMIdle /\ NoCalls /\ Configured

SpecFilter == FilterInit /\ [][NextFilter]_vars

TopNInit == LLMIdle /\ InitHistory /\ DedupIdle /\ JobIdle /\ NoCalls /\ Configured

SpecTopN == TopNInit /\ [][NextTopN]_vars

----------------------------------------------------------------------------
(* C1: permanent dedup in the History Store                                *)

\* is_duplicate on the manager's current lookup sets
IsDup(name, url) == is_duplicate(_name_set, _url_set, name, url)

\* a pair that names something: its normalised name or url is not empty
HasIdentity(name, url) == _normalize(name) # <<>> \/ _normalize_url(url) # <<>>

\* C1 as stated: after add(name, url) (alone or from save_recommendations),
\* is_duplicate(name, url) is true, for every pair (name, url).
C1_AddedIsDuplicate ==
    last_call.op \in {"add", "save_recommendations"}
        => \A p \in last_call.args : IsDup(p[1], p[2])

\* C1 amended: for every pair with a non-empty normalised name or url, right
\* after add(name, url) is_duplicate(name, url) is true, and a pair that
\* is_duplicate accepts stays accepted by every later add, save,
\* save_recommendations and is_duplicate of the same manager (no clear()).
C1_PermanentDedup ==
    [][ /\ last_call'.op \in {"add", "save_recommendations"}
            => \A p \in last_call'.args :
                   HasIdentity(p[1], p[2])
                       => is_duplicate(_name_set', _url_set', p[1], p[2])
        /\ last_call'.op \notin {"clear", "new"}
            => \A p \in Products :
                   IsDup(p.name, p.url)
                       => is_duplicate(_name_set', _url_set', p.name, p.url)
      ]_vars

\* a second product has been added and the first is still a duplicate
C1_Witness ==
    /\ last_call.op = "add"
    /\ Len(_history) = 2
    /\ last_call.args = {<<_history[2].name, _history[2].url>>}
    /\ HasIdentity(_history[1].name, _history[1].url)
    /\ IsDup(_history[1].name, _history[1].url)
    /\ IsDup(_history[2].name, _history[2].url)

----------------------------------------------------------------------------
(* C4: history identity is exact normalised match on either field          *)

\* the identity of a name, in the claim's words: lowercased and trimmed
IdentName(name) == strip(lower(name))

\* the identity of a url, in the claim's words: lowercased, trimmed, query
\* string removed, trailing slash removed
IdentUrl(url) == rstrip(split_head(strip(lower(url)), "?"), "/")

\* C4 as stated: is_duplicate(name, url) is true exactly when the name's
\* identity equals a recorded entry's or the url's identity equals a
\* recorded entry's.
C4_IdentityAsStated ==
    \A n \in Names, u \in Urls :
        IsDup(n, u) <=>
            \E i \in 1..Len(_history) :
                \/ IdentName(n) = IdentName(_history[i].name)
                \/ IdentUrl(u) = IdentUrl(_history[i].url)

\* C4 amended: is_duplicate(name, url) is true exactly when the non-empty
\* identity of the name equals a recorded entry's, or the non-empty identity
\* of the url equals a recorded entry's; an empty field matches nothing.
C4_Identity ==
    \A n \in Names, u \in Urls :
        IsDup(n, u) <=>
            \E i \in 1..Len(_history) :
                \/ IdentName(n) # <<>> /\ IdentName(n) = IdentName(_history[i].name)
                \/ IdentUrl(u) # <<>> /\ IdentUrl(u) = IdentUrl(_history[i].url)

\* the ledger holds (a, u); the query (" A", u/p) is answered true by its name
\* alone, and the url u/p, which only extends u, is no match by itself
C4_Witness ==
    /\ _history = <<Entry(<<"a">>, <<"u">>)>>
    /\ last_call = [op |-> "is_duplicate",
                    args |-> {<< <<" ", "A">>, <<"u", "/", "p">> >>},
                    result |-> TRUE]
    /\ ~IsDup(<<>>, <<"u", "/", "p">>)
    /\ IsDup(<<"b">>, <<"U", "/", "?", "x">>)

----------------------------------------------------------------------------
(* C5: session dedup is idempotent                                         *)

\* C5: applying the deduplicator (cleaner.deduplicate, or _dedupe with a
\* fixed recent-seen set) to its own output gives that output again: the same
\* elements in the same order.
C5_DedupIdempotent == dd_pc = 2 => dd_twice = dd_once

\* a list that held duplicates has been deduplicated twice
C5_Witness ==
    /\ dd_pc = 2
    /\ Len(dd_items) = 3
    /\ Len(dd_once) = 2
    /\ dd_twice = dd_once

----------------------------------------------------------------------------
(* C2: no product is recommended twice across daily jobs                   *)

\* two products with the same non-empty normalised name or the same non-empty
\* normalised url
SameProduct(x, y) ==
    \/ IdentName(x.name) # <<>> /\ IdentName(x.name) = IdentName(y.name)
    \/ IdentUrl(x.url) # <<>> /\ IdentUrl(x.url) = IdentUrl(y.url)

\* C2 as stated, and narrowed to the jobs in which no file access failed and
\* the oracle picked among the candidates it was given: no item of the
\* shortlist returned by curate() is the same product as an item of the
\* shortlist of an earlier job.
C2_NeverRecommendedTwice ==
    (pc = "returned" /\ undisturbed)
        => \A i \in 1..Len(selections) : \A r \in recommended :
               ~SameProduct(selections[i], r)

----------------------------------------------------------------------------
(* C3: the value pre-filter rejects every recorded product                 *)

\* curate() stands between the pre-filter and the end of the job; the History
\* Store does not change there
Curating == pc \in {"pooled", "balanced", "enriched", "picked", "returned"}

\* C3: no candidate of the filtered pools is a duplicate of the History Store,
\* and a gem that is one is in no pool, not in the balanced pool, not in the
\* oracle batch and not among the backfilled items.
C3_PrefilterRejectsRecorded ==
    Curating =>
        /\ \A s \in PoolNames : \A j \in 1..Len(source_pools[s]) :
               ~IsDup(source_pools[s][j].name, source_pools[s][j].url)
        /\ \A j \in 1..Len(balanced_candidates) :
               ~IsDup(balanced_candidates[j].name, balanced_candidates[j].url)
        /\ \A j \in 1..Len(candidates_for_llm) :
               ~IsDup(candidates_for_llm[j].name, candidates_for_llm[j].url)
        /\ \A j \in 1..Len(selections) :
               selections[j].one_sentence_intro_cn \in FallbackSummaries
                   => ~IsDup(selections[j].name, selections[j].url)

\* a later job whose feed holds a recorded product and a new one: the
\* shortlist is returned and holds the new one only
C3_Witness ==
    /\ pc = "returned"
    /\ \E i \in 1..Len(weekly) : IsDup(weekly[i].name, weekly[i].url)
    /\ \E i \in 1..Len(weekly) : ~IsDup(weekly[i].name, weekly[i].url)
    /\ Len(selections) = 1
    /\ selections[1].one_sentence_intro_cn \in FallbackSummaries

----------------------------------------------------------------------------
(* C6: the session deduplicator and records that differ by case or query   *)

\* two records whose names are equal up to letter case and whose urls are
\* equal once letter case and query string are ignored
Twins(x, y) ==
    /\ lower(x.name) = lower(y.name)
    /\ IdentUrl(x.url) = IdentUrl(y.url)

\* C6 as stated: the deduplicated list curate() works on never holds two
\* such records.
C6_TwinsCollapse ==
    \A i \in 1..Len(weekly) : \A j \in 1..Len(weekly) :
        i < j => ~Twins(weekly[i], weekly[j])

----------------------------------------------------------------------------
(* C7: the coverage of the Source Balancer                                 *)

\* the batch holds a candidate of the source
Represented(s) ==
    \E i \in 1..Len(candidates_for_llm) : candidates_for_llm[i].source = s

\* the six sources of get_weekly_gems
NamedSources ==
    {"Product Hunt", "Toolify", "TAAFT", "Futurepedia", "Hacker News", "GitHub"}

\* C7 as stated: when no more sources than the batch cap have a non-empty
\* pool, the batch holds a candidate of every source whose pool is not empty.
C7_CoverageAsStated ==
    (/\ pc = "balanced"
     /\ Cardinality({ s \in NamedSources : source_pools[s] # <<>> }) <= BatchCap)
        => \A s \in NamedSources : source_pools[s] # <<>> => Represented(s)

\* C7 amended: the batch holds a candidate of each of Product Hunt, Toolify,
\* TAAFT, Hacker News and GitHub whose pool is not empty, whatever the number
\* of sources; Futurepedia shares a slot with TAAFT and is in the batch
\* exactly when its pool is not empty and the pool of TAAFT is empty.
C7_Coverage ==
    pc = "balanced" =>
        /\ \A s \in NamedSources \ {"Futurepedia"} :
               source_pools[s] # <<>> => Represented(s)
        /\ Represented("Futurepedia") <=>
               (source_pools["Futurepedia"] # <<>> /\ source_pools["TAAFT"] = <<>>)

\* every pool holds two candidates: the balanced pool is full and the batch
\* is cut to its cap
C7_Witness ==
    /\ pc = "balanced"
    /\ \A s \in PoolNames : Len(source_pools[s]) = 2
    /\ Len(balanced_candidates) = PoolCap
    /\ Len(candidates_for_llm) = BatchCap
    /\ \A s \in NamedSources \ {"Futurepedia"} : Represented(s)

----------------------------------------------------------------------------
(* C8: origin conservatism                                                 *)

\* an evidence token is a word of the text
has_evidence_token(text) == \E w \in text : lower(w) \in cn_evidence

\* C8 as stated, with every entry of cn_evidence taken for an evidence token
\* and every text of the candidate for its enrichment text: an item of the
\* returned shortlist has origin CN only if the oracle labelled it CN and an
\* evidence token occurs in the text of a candidate with the same name; every
\* other item has origin Global.
C8_OriginConservative ==
    pc = "returned" =>
        \A i \in 1..Len(selections) :
            /\ selections[i].origin \in {"CN", "Global"}
            /\ selections[i].origin = "CN" =>
                   /\ \E k \in 1..Len(llm_picks) :
                          /\ llm_picks[k].name = selections[i].name
                          /\ llm_picks[k].origin = "CN"
                   /\ \E j \in 1..Len(balanced_candidates) :
                          /\ lower(balanced_candidates[j].name) = lower(selections[i].name)
                          /\ has_evidence_token(candidate_text(balanced_candidates[j]))

----------------------------------------------------------------------------
(* C9: the requests of one call of select_best / select_top_n              *)

\* C9 as stated: a call issues at most max_retries requests in total.
C9_AtMostMaxRetriesRequests == posts <= max_retries

\* C9 amended: a call makes at most max_retries attempts, each of at most
\* max_retries requests, hence at most max_retries * max_retries requests;
\* while the call runs, the requests made are fewer than that, and each
\* request is one more of a bounded number, so the call ends.
C9_BoundedRequests ==
    /\ attempt \in 1..max_retries
    /\ req_attempt \in 1..max_retries
    /\ posts <= max_retries * max_retries
    /\ llm_pc = "requesting" =>
           /\ posts < max_retries * max_retries
           /\ posts <= (attempt - 1) * max_retries + (req_attempt - 1)
           /\ posts >= (attempt - 1) + (req_attempt - 1)

\* a call has ended after max_retries * max_retries requests
C9_Witness ==
    /\ llm_pc = "done"
    /\ posts = max_retries * max_retries
    /\ llm_ret.how = "returned"

----------------------------------------------------------------------------
(* C10: a call that receives unparseable contents only                     *)

\* C10: when every content a call has received was unparseable, select_best
\* returns None and select_top_n returns the empty list, after max_retries
\* attempts, and no parse error is raised to the caller; the one other end
\* of such a call is the RuntimeError of a _request whose max_retries posts
\* have all come back without a content.
C10_UnparseableGivesNothing ==
    (llm_pc = "done" /\ posts > 0 /\ unparsed) =>
        \/ /\ llm_ret = [how |-> "returned", value |-> <<>>]
           /\ attempt = max_retries
        \/ /\ llm_ret.how = "raised"
           /\ req_attempt = max_retries
           /\ posts >= (attempt - 1) + max_retries

\* select_top_n has received max_retries unparseable contents and returned []
C10_Witness ==
    /\ llm_pc = "done"
    /\ llm_op = "select_top_n"
    /\ posts = max_retries
    /\ attempt = max_retries
    /\ req_attempt = 1
    /\ unparsed
    /\ llm_ret = [how |-> "returned", value |-> <<>>]

----------------------------------------------------------------------------
(* C11: the rejection sentinel in select_top_n                             *)

\* the list is one select_top_n can hand back without a rejected item in it
NoNullIn(list) ==
    \A k \in 1..Len(list) : ~is_null(list[k].one_sentence_intro_cn.text)

\* C11: no list select_top_n returns, at once or as the best attempt after
\* all its retries, and no list it keeps as best_result, holds an item whose
\* summary is the sentinel NULL, with whitespace around it and in any letter
\* case, marked or not
C11_NullNeverReturned ==
    llm_op = "select_top_n" =>
        /\ NoNullIn(best_result)
        /\ llm_ret.how = "returned" => NoNullIn(llm_ret.value)

\* select_top_n has returned a list with items in it, as the best attempt
\* after its last retry, in a call where an array held a rejected item
C11_Witness ==
    /\ llm_op = "select_top_n"
    /\ llm_ret.how = "returned"
    /\ attempt = max_retries
    /\ null_seen
    /\ Len(llm_ret.value) > 0
    /\ Len(llm_ret.value) < MinItems

----------------------------------------------------------------------------
(* C12: the backfill of a shortlist with fewer than 3 picks                 *)

\* the item is what the backfill makes of the candidate: its name, url and
\* source, a fallback summary and origin Global
FallbackOf(item, candidate) ==
    /\ item.name = candidate.name
    /\ item.url = candidate.url
    /\ item.source = candidate.source
    /\ item.origin = "Global"
    /\ \E one_line \in OneLineWorlds :
           item.one_sentence_intro_cn = _fallback_reason(one_line, candidate)

\* at tells, for each item after the picks, its position in the balanced pool:
\* the positions go up, and a position of the pool is taken exactly when the
\* shortlist had fewer than 3 items on reaching it and none with its name
BackfilledAt(at) ==
    LET n == Len(llm_picks)
        before(j) == n + Cardinality({ i \in DOMAIN at : at[i] < j })
    IN  /\ \A i \in DOMAIN at : FallbackOf(selections[i], balanced_candidates[at[i]])
        /\ \A i, k \in DOMAIN at : i < k => at[i] < at[k]
        /\ \A j \in 1..Len(balanced_candidates) :
               (\E i \in DOMAIN at : at[i] = j)
                   <=> /\ before(j) < MinItems
                       /\ \A i \in 1..before(j) :
                              selections[i].name # balanced_candidates[j].name

\* C12: when select_top_n has handed back fewer than 3 picks, the shortlist
\* curate() returns is the picks followed by candidates of the balanced pool
\* in pool order, each with a fallback summary and origin Global, the
\* candidates whose name is already in the shortlist being skipped, until the
\* shortlist has 3 items or the pool is exhausted; when it has handed back 3
\* picks or more, clean or marked, the shortlist has 3 items without any
\* candidate appended
C12_Backfill ==
    pc = "returned" =>
        /\ Len(llm_picks) < MinItems =>
               Len(llm_picks) <= Len(selections) /\ Len(selections) <= MinItems
        /\ Len(llm_picks) >= MinItems => Len(selections) <= Len(llm_picks)
        /\ \E at \in [(Len(llm_picks) + 1)..Len(selections)
                          -> 1..Len(balanced_candidates)] : BackfilledAt(at)

\* one pick, a pool whose first candidate has the name of the pick and whose
\* second has not: the shortlist is the pick and the second candidate
C12_Witness ==
    /\ pc = "returned"
    /\ Len(llm_picks) = 1
    /\ Len(balanced_candidates) = 2
    /\ balanced_candidates[1].name = llm_picks[1].name
    /\ Len(selections) = 2
    /\ selections[2].name = balanced_candidates[2].name
    /\ selections[2].one_sentence_intro_cn = "template"

----------------------------------------------------------------------------
(* C13: the summary select_best returns and the quality gate                *)

\* C13: the summary of the pick select_best returns has a degradation marker
\* before it whenever its text fails the quality gate (_needs_rewrite)
C13_DegradedIsMarked ==
    (llm_op = "select_best" /\ llm_ret.how = "returned" /\ llm_ret.value # <<>>) =>
        LET summary == llm_ret.value[1].one_sentence_intro_cn
        IN  _needs_rewrite(summary.text) => summary.mark # ""

----------------------------------------------------------------------------
(* C14: curate() and the failures of the search and of the oracle          *)

\* the names of the candidates of the balanced pool
PoolNamesOf(pool) == { pool[i].name : i \in 1..Len(pool) }

\* C14: whatever the search, select_top_n and one_line_summary do, curate()
\* raises only when the write of its store file has failed; a search that
\* finds nothing or raises leaves the description of every candidate as it
\* was; and when select_top_n has raised the shortlist is made of candidates
\* of the balanced pool, one for each name up to 3, each with the summary of
\* _fallback_reason, which is the local line when one_line_summary gives no
\* Chinese line
C14_DegradesWithoutRaising ==
    /\ pc = "raised" => outcomes["_save_history"] \in WriteOutcomes \ {"ok"}
    /\ (pc \in {"enriched", "picked", "returned"}
            /\ outcomes["search"] \in {"nothing", "raises"}) =>
           \A i \in 1..Len(balanced_candidates) :
               balanced_candidates[i].description =
                   [base |-> balanced_candidates[i].tagline, tavily |-> {}]
    /\ (pc = "returned" /\ outcomes["select_top_n"] = "raised") =>
           /\ Len(selections) =
                  IF Cardinality(PoolNamesOf(balanced_candidates)) < MinItems
                  THEN Cardinality(PoolNamesOf(balanced_candidates)) ELSE MinItems
           /\ \A i \in 1..Len(selections) :
                  /\ \E j \in 1..Len(balanced_candidates) :
                         /\ selections[i].name = balanced_candidates[j].name
                         /\ selections[i].url = balanced_candidates[j].url
                  /\ selections[i].origin = "Global"
                  /\ selections[i].one_sentence_intro_cn \in FallbackSummaries
                  /\ outcomes["one_line_summary"] # "translated" =>
                         selections[i].one_sentence_intro_cn = "template"

\* the search has raised, select_top_n has raised, one_line_summary has
\* raised, and curate() has returned a shortlist of two candidates
C14_Witness ==
    /\ pc = "returned"
    /\ outcomes["search"] = "raises"
    /\ outcomes["select_top_n"] = "raised"
    /\ outcomes["one_line_summary"] = "raises"
    /\ Len(selections) = 2

----------------------------------------------------------------------------
(* C15: the persisted ledger is append-only                                 *)

\* the list old is the beginning of the list new
IsPrefix(old, new) == Len(old) <= Len(new) /\ SubSeq(new, 1, Len(old)) = old

\* C15: in a step that is not clear() and that leaves a complete ledger in
\* the file, every entry the file held before is still in it, unchanged and
\* at the same place, whatever the load of the process has been
C15_AppendOnly ==
    [][ (/\ last_call'.op # "clear"
         /\ history_file.exists /\ history_file.readable
         /\ history_file'.exists /\ history_file'.readable)
            => IsPrefix(history_file.data, history_file'.data) ]_vars

----------------------------------------------------------------------------
(* C16: the file of the ledger during and after a save                     *)

\* C16: the file of the ledger, once it exists, always holds a complete
\* ledger, the one before the save or the one saved, also when the write
\* stops before its end
C16_NeverPartial == history_file.exists => history_file.readable

----------------------------------------------------------------------------
(* C17: a failed write of a persisted store and the result of the run      *)

\* C17: a daily job whose shortlist is assembled never ends with an exception
\* of curate(): also when the write of the store file fails, curate()
\* returns its shortlist
C17_WriteFailureKeepsShortlist == pc # "raised"

----------------------------------------------------------------------------
(* C18: the shortlist is non-repeating                                      *)

\* two items of a shortlist have the same identity
SameIdentity(x, y) ==
    \/ _normalize(x.name) # <<>> /\ _normalize(x.name) = _normalize(y.name)
    \/ _normalize_url(x.url) # <<>> /\ _normalize_url(x.url) = _normalize_url(y.url)

\* C18: no two items of the shortlist curate() returns have the same
\* normalized name or the same normalized url
C18_NonRepeating ==
    pc = "returned" =>
        \A i, j \in 1..Len(selections) :
            i < j => ~SameIdentity(selections[i], selections[j])

\* the oracle has given no pick and the shortlist holds two candidates of
\* the balanced pool with the same normalized url
C18_BackfillRepeats ==
    /\ pc = "returned"
    /\ llm_picks = <<>>
    /\ Len(selections) = 2
    /\ selections[1].name # selections[2].name
    /\ SameIdentity(selections[1], selections[2])

----------------------------------------------------------------------------
(* C19: the size of the shortlist                                           *)

\* C19: the shortlist curate() returns has at most 4 items
C19_AtMostFour == pc = "returned" => Len(selections) <= MaxShortlist

\* the oracle has answered more items than the shortlist takes, and the
\* shortlist returned is the first 4 of them
C19_Witness ==
    /\ pc = "returned"
    /\ Len(llm_picks) > MaxShortlist
    /\ Len(selections) = MaxShortlist

----------------------------------------------------------------------------
(* C20: the order of the shortlist                                          *)

\* the item of the shortlist is made of the pick
MadeOfPick(item, pick) ==
    /\ item.name = pick.name
    /\ item.url = pick.url
    /\ item.source = pick.source
    /\ item.one_sentence_intro_cn = pick.one_sentence_intro_cn

\* C20: the shortlist curate() returns begins with the picks of the oracle,
\* in the order of its answer and none left out before the 4th, and goes on
\* with candidates of the balanced pool at positions that go up
C20_PicksThenPoolOrder ==
    pc = "returned" =>
        /\ Len(selections) >= (IF Len(llm_picks) < MaxShortlist
                               THEN Len(llm_picks) ELSE MaxShortlist)
        /\ \A i \in 1..Len(selections) :
               i <= Len(llm_picks) => MadeOfPick(selections[i], llm_picks[i])
        /\ \E at \in [(Len(llm_picks) + 1)..Len(selections)
                          -> 1..Len(balanced_candidates)] :
               /\ \A i \in DOMAIN at :
                      /\ selections[i].name = balanced_candidates[at[i]].name
                      /\ selections[i].url = balanced_candidates[at[i]].url
               /\ \A i, k \in DOMAIN at : i < k => at[i] < at[k]

\* one pick that names no candidate, followed by the two candidates of the
\* balanced pool in their order
C20_Witness ==
    /\ pc = "returned"
    /\ Len(llm_picks) = 1
    /\ Len(selections) = MinItems
    /\ selections[1].name = llm_picks[1].name
    /\ selections[2].url = balanced_candidates[1].url
    /\ selections[3].url = balanced_candidates[2].url
    /\ balanced_candidates[1].url # balanced_candidates[2].url

----------------------------------------------------------------------------
(* C21: run_daily_job without a key of the oracle                           *)

\* C21: a daily job started without a key (none, or blanks only) ends with
\* an exception in the same step: the ledger in memory and its file, the
\* store file, the fetched lists, the picks of the oracle, the requests made
\* to it and the report file are all as they were before
C21_NoKeyNoWork ==
    [][ (strip(api_key) = <<>> /\ runs' # runs) =>
            /\ pc' = "raised"
            /\ UNCHANGED <<histVars, store, weekly, source_pools,
                           balanced_candidates, candidates_for_llm, llm_picks,
                           selections, llmVars, callVars, report>> ]_vars

\* after a job that has written a report and whose save of the ledger was
\* cut short, a job without a key has been refused
C21_Witness ==
    /\ pc = "raised"
    /\ strip(api_key) = <<>>
    /\ runs = MaxRuns
    /\ report = "written"
    /\ _history # <<>>
    /\ history_file = BadFile

----------------------------------------------------------------------------
(* C22: add is a no-op on duplicates                                        *)

\* what add(name, url) does to the ledger and the lookup sets, in the
\* claim's words: nothing on a duplicate, else one entry more and the
\* non-empty normalized name and url in the lookup sets
AddAsClaimed(name, url) ==
    IF is_duplicate(_name_set, _url_set, name, url)
    THEN UNCHANGED <<_history, _name_set, _url_set>>
    ELSE /\ Len(_history') = Len(_history) + 1
         /\ SubSeq(_history', 1, Len(_history)) = _history
         /\ _history'[Len(_history')].name = name
         /\ _history'[Len(_history')].url = url
         /\ _name_set' = _name_set \cup ({_normalize(name)} \ {<<>>})
         /\ _url_set' = _url_set \cup ({_normalize_url(url)} \ {<<>>})

\* every step of add(name, url) is as claimed
AddSteps ==
    [][ last_call'.op = "add" =>
            \A p \in last_call'.args : AddAsClaimed(p[1], p[2]) ]_vars

\* C22 as stated: add does nothing on a duplicate and else appends one entry
\* and records its non-empty normalized fields, and the ledger never holds
\* two entries with the same normalized name and the same normalized url
C22_NoTwoWithOneIdentity ==
    /\ AddSteps
    /\ [](\A i, j \in 1..Len(_history) :
            i < j => \/ _normalize(_history[i].name) # _normalize(_history[j].name)
                     \/ _normalize_url(_history[i].url)
                            # _normalize_url(_history[j].url))

\* C22 amended: add does nothing on a duplicate and else appends one entry
\* and records its non-empty normalized fields, and the ledger never holds
\* two entries that share a non-empty normalized name or a non-empty
\* normalized url (entries without either are appended every time)
C22_AddNoOpOnDuplicate ==
    /\ AddSteps
    /\ [](\A i, j \in 1..Len(_history) :
            i < j => ~SameIdentity(_history[i], _history[j]))

\* add has been called for a duplicate of the one entry of the ledger, by
\* its name alone, and the ledger still holds that one entry
C22_Witness ==
    /\ last_call.op = "add"
    /\ last_call.args = {<< <<" ", "A">>, <<"u", "/", "p">> >>}
    /\ _history = <<Entry(<<"a">>, <<"u">>)>>
    /\ _name_set = {<<"a">>}
    /\ _url_set = {<<"u">>}

----------------------------------------------------------------------------
(* C23: transport failure inside the oracle adapter                         *)

\* C23: a call of select_best or select_top_n never ends with an exception:
\* when the posts of one request have all failed, the method goes on and in
\* the end returns to its caller (None, an empty list, or what it had)
C23_TransportFailureContained ==
    llm_pc = "done" => llm_ret.how = "returned"

----------------------------------------------------------------------------
(* C24: the result of select_top_n                                          *)

\* the items of a validated set that carry no mark
Unmarked(valid) ==
    LET clean(i) == i.one_sentence_intro_cn.mark = "" IN SelectSeq(valid, clean)

\* the attempt qualifies: at least MinItems of its validated items are clean
Qualifies(valid) == Len(Unmarked(valid)) >= MinItems

\* the earliest of the validated sets with the most items
EarliestLargest(sets) ==
    LET k == CHOOSE i \in 1..Len(sets) :
                 /\ \A j \in 1..Len(sets) : Len(sets[j]) <= Len(sets[i])
                 /\ \A j \in 1..(i - 1) : Len(sets[j]) < Len(sets[i])
    IN  sets[k]

\* C24: select_top_n returns the validated set of the first attempt with at
\* least MinItems clean (unmarked) items and makes no attempt after it; when
\* none of its max_retries attempts qualifies, it returns the validated set
\* with the most items, the earliest one on ties
C24_ResultOfSelectTopN ==
    llm_op = "select_top_n" =>
        /\ \A k \in 1..Len(valid_seen) :
              Qualifies(valid_seen[k]) =>
                  /\ k = Len(valid_seen)
                  /\ llm_pc = "done"
                  /\ llm_ret = [how |-> "returned", value |-> valid_seen[k]]
        /\ ( /\ llm_pc = "done"
             /\ llm_ret.how = "returned"
             /\ valid_seen # <<>>
             /\ \A k \in 1..Len(valid_seen) : ~Qualifies(valid_seen[k]) )
               => /\ Len(valid_seen) = max_retries
                  /\ llm_ret.value = EarliestLargest(valid_seen)

----------------------------------------------------------------------------
(* C25: rate limiting and the content attempts                              *)

\* C25: 429 answers take no content attempt away: a call in whose current
\* request no post has failed otherwise (last_err is None) does not end
\* before it has returned, however many of its posts were answered 429
C25_ThrottlingLeavesAttempts ==
    (llm_pc = "done" /\ last_err = "None") => llm_ret.how = "returned"

----------------------------------------------------------------------------
(* C26: the bounded batch                                                   *)

\* no candidate is twice in the list: no two positions hold the same record,
\* nor two records of the same name and url
NoneTwice(list) ==
    \A i, j \in 1..Len(list) :
        i < j => /\ list[i] # list[j]
                 /\ <<list[i].name, list[i].url>> # <<list[j].name, list[j].url>>

\* C26: whatever the sizes of the source pools, the batch handed to
\* select_top_n has at most 6 candidates, the balanced pool at most 8, and
\* neither holds a candidate twice
C26_BoundedBatch ==
    /\ Len(candidates_for_llm) <= 6
    /\ Len(balanced_candidates) <= 8
    /\ NoneTwice(candidates_for_llm)
    /\ NoneTwice(balanced_candidates)

\* every pool holds more than one candidate: the balanced pool is full, with
\* the second candidates of TAAFT, Product Hunt and Toolify after the five
\* forced slots, and the batch is cut to its first 6
C26_Witness ==
    /\ pc = "balanced"
    /\ \A s \in PoolNames : Len(source_pools[s]) >= 2
    /\ Len(balanced_candidates) = 8
    /\ Len(candidates_for_llm) = 6
    /\ balanced_candidates[6] = source_pools["TAAFT"][2]
    /\ balanced_candidates[8] = source_pools["Toolify"][2]

----------------------------------------------------------------------------
(* C27: candidates seen in the last 30 days                                 *)

\* recent_seen of the running curate(): the keys the store file held when it
\* was called, that is, without the entries of this job
RecentSeen ==
    LET before == [exists |-> store.exists, readable |-> store.readable,
                   data |-> LET earlier(e) == e.ts < runs
                            IN  SelectSeq(store.data, earlier)]
    IN  _recent_seen(before, runs, 30)

\* C27: no candidate whose key (url, or name without a url, lowercased and
\* trimmed) was written to the store file in the last 30 days is in the
\* balanced pool, in the batch, or in the shortlist curate() returns
C27_RecentSeenExcluded ==
    /\ pc \in {"balanced", "enriched", "picked", "returned"} =>
           /\ \A j \in 1..Len(balanced_candidates) :
                  url_or_name_key(balanced_candidates[j]) \notin RecentSeen
           /\ \A j \in 1..Len(candidates_for_llm) :
                  url_or_name_key(candidates_for_llm[j]) \notin RecentSeen
    /\ pc = "returned" =>
           \A j \in 1..Len(selections) :
               url_or_name_key(selections[j]) \notin RecentSeen

----------------------------------------------------------------------------
(* C28: raw records without published_at                                    *)

\* the record has no published_at and its source is filtered by date in the
\* weekly window (every source but Toolify)
Undated(r) == r.published_at = "none" /\ r.source # "Toolify"

\* C28: a record without published_at of a source filtered by date is not
\* in the list get_weekly_gems returns and is no candidate of curate()
C28_UndatedNotRecent ==
    /\ \A i \in 1..Len(weekly) : ~Undated(weekly[i])
    /\ \A s \in PoolNames : \A j \in 1..Len(source_pools[s]) :
           \A k \in 1..Len(Universe) :
               Undated(Universe[k]) =>
                   source_pools[s][j] # _to_candidate_dict(Universe[k])

----------------------------------------------------------------------------
(* C29: admitted candidates have a name or a url                            *)

\* the candidate has a non-empty name or a non-empty url
Identified(c) == c.name # <<>> \/ c.url # <<>>

\* C29: every candidate that _to_candidate_dict and _prefilter_value have
\* let through, hence every candidate of the pools, of the balanced pool and
\* of the batch, has a non-empty name or a non-empty url
C29_AdmittedHasNameOrUrl ==
    /\ \A s \in PoolNames : \A j \in 1..Len(source_pools[s]) :
           Identified(source_pools[s][j])
    /\ \A j \in 1..Len(balanced_candidates) : Identified(balanced_candidates[j])
    /\ \A j \in 1..Len(candidates_for_llm) : Identified(candidates_for_llm[j])

\* the sources returned a record without name and url and one with a name
\* only: the first is in no pool, the second is the balanced pool
C29_Witness ==
    /\ pc = "balanced"
    /\ Len(weekly) = 2
    /\ weekly[1].name = <<>> /\ weekly[1].url = <<>>
    /\ weekly[2].name = <<"a">> /\ weekly[2].url = <<>>
    /\ balanced_candidates = <<_to_candidate_dict(weekly[2])>>

----------------------------------------------------------------------------
(* C30: the shortlist is made of candidates                                 *)

\* the item has the name and the url of a candidate of the balanced pool
OfBalancedPool(x) ==
    \E j \in 1..Len(balanced_candidates) :
        /\ balanced_candidates[j].name = x.name
        /\ balanced_candidates[j].url = x.url

\* C30: every item of the shortlist curate() returns, and every entry it
\* appends to the store file in this job, has the name and the url of a
\* candidate of the balanced pool of this job
C30_ShortlistOfCandidates ==
    pc = "returned" =>
        /\ \A i \in 1..Len(selections) : OfBalancedPool(selections[i])
        /\ \A k \in 1..Len(_load_history(store)) :
               _load_history(store)[k].ts = runs
                   => OfBalancedPool(_load_history(store)[k])

====
